---- MODULE Spec2Model ----
(***************************************************************************)
(* Model of the batch "add members" widget of the lldap admin console:     *)
(* AddGroupMemberComponent (app/src/components/add_group_member.rs) and    *)
(* its twin AddUserToGroupComponent (add_user_to_group.rs), which share    *)
(* the same message handlers, and of the SearchableSelect picker they host  *)
(* (app/src/components/select.rs).  One action per message of a component.  *)
(*                                                                         *)
(* Strings are sequences of character codes ("u1" is <<117, 49>>).         *)
(***************************************************************************)
EXTENDS Integers, Sequences, FiniteSets, TLC

\* ------------------------------------------------------------------ bounds
\* number of users the ListUserNames query returns
NumUsers == 2
\* number of SubmitAddMembers messages delivered to the widget
MaxSubmits == 2
\* number of SelectionChanged messages delivered to the widget
MaxChanges == 2
\* number of messages delivered to the picker
MaxPicks == 3
\* length of the entity lists the option builders are applied to
MaxListLen == 2
\* number of messages delivered to a table
MaxTableMsgs == 3

\* the texts typed into the search box: "", "\u00e9A" (e with acute, then A), "2", "U"
Queries == {<<>>, <<233, 65>>, <<50>>, <<85>>}

\* ------------------------------------------------------------ fetched data
IdOf(k) == <<117, 48 + k>>

\* the display names: none for an even k, else a capital with an accent and a
\* small letter (E with acute and a for 1)
NameOf(k) == IF k % 2 = 0 THEN <<>> ELSE <<200 + k, 96 + k>>

MkUser(k) == [id |-> IdOf(k), display_name |-> NameOf(k)]

\* the users of a successful UserListResponse, in server order
FetchedUsers == [k \in 1..NumUsers |-> MkUser(k)]

NoUser == [id |-> <<>>, display_name |-> <<>>]

\* --------------------------------------------------------------- the state
VARIABLES
    user_list,          \* Option<Vec<User>>: <<>> is None, <<l>> is Some(l)
    selected_users,     \* Vec<User>
    current_add_index,  \* usize
    is_task_running,    \* CommonComponentParts: a call was started and has not completed
    error,              \* CommonComponentParts: the local last-error slot (<<>> is None)
    props_users,        \* Props::users, the members the parent knows
    list_pending,       \* the ListUserNames call of create() is outstanding
    pending,            \* the AddUserToGroup calls outstanding (indices of calls)
    calls,              \* every AddUserToGroup call issued: the user id it carries and,
                        \*   as history, the batch it belongs to and its step in the batch
    trace,              \* history: calls issued and committed notifications emitted, in order
    failures,           \* history: the (batch, step) of every call that failed
    reported,           \* history: the errors emitted on Props::on_error
    handled,            \* history: the message handled last
    job,                \* history: the batch started by the last non-empty submit:
                        \*   id, the number of the submit; items, the selected list at the
                        \*   submit; quiet, no call was outstanding at the submit;
                        \*   undisturbed, quiet and since the submit no user message and no
                        \*   failure; prev, the index before the submit
    nsubmit,            \* number of SubmitAddMembers messages handled
    nchange,            \* number of SelectionChanged messages handled
    multiple,           \* SearchableSelectProps::multiple
    filtered_options,   \* SearchableSelect::filtered_options
    selected_options,   \* SearchableSelect::selected_options
    search_value,       \* the value of the search input (search_ref)
    fetched,            \* the entity list an option builder is applied to
    members,            \* the members it is applied with
    built,              \* the options it built, for which picker
    emissions,          \* history: the lists emitted on on_selection_change
    picks,              \* history: the messages the picker has handled
    table_kind,         \* which table: UserTable or GroupTable
    table_rows,         \* UserTable::users / GroupTable::groups, <<>> for None
    search_query,       \* UserTable::search_query / GroupTable::search_query
    table_pending,      \* number of list calls of the table not yet answered
    table_requests,     \* history: the filter of every list call of the table
    table_error,        \* the error slot of the table
    table_handled       \* history: the messages the table has handled

host_vars == <<user_list, selected_users, current_add_index, is_task_running, error,
               props_users, list_pending, pending, calls, trace, failures, reported,
               handled, job, nsubmit, nchange>>

picker_vars == <<multiple, filtered_options, selected_options, search_value,
                 emissions, picks>>

option_vars == <<fetched, members, built>>

table_vars == <<table_kind, table_rows, search_query, table_pending, table_requests,
                table_error, table_handled>>

vars == <<host_vars, picker_vars, option_vars, table_vars>>

\* a call belongs to the batch of the submit that issued it or, when a response
\* handler issued it, to the batch of the call whose response was handled; the
\* notification a response handler emits belongs to the batch of that call
CallEv(id, b) == [t |-> "call", id |-> id, user |-> NoUser, batch |-> b]

CommitEv(u, b) == [t |-> "commit", id |-> u.id, user |-> u, batch |-> b]

Call(id, b, k) == [id |-> id, batch |-> b, step |-> k]

Handled(m, c, ok) == [msg |-> m, call |-> c, ok |-> ok]

\* ------------------------------------------------------- pure parts of the code
\* get_selectable_user_list: the fetched users that are not in Props::users
\* (HashSet<&User>::contains compares the derived Eq of User: id and display_name)
get_selectable_user_list(users, list) ==
    SelectSeq(list, LAMBDA u : \A i \in DOMAIN users : users[i] # u)

\* get_selectable_options: one SelectOptionProps per selectable user
get_selectable_options(users, list) ==
    LET l == get_selectable_user_list(users, list)
    IN  [i \in DOMAIN l |->
            [value |-> l[i].id,
             text  |-> IF l[i].display_name = <<>> THEN l[i].id ELSE l[i].display_name]]

\* Msg::SelectionChanged: the options converted to User objects
users_of_options(options) ==
    [i \in DOMAIN options |-> [id |-> options[i].value, display_name |-> options[i].text]]

\* add_next_user reading the first selected user instead of the one at the index
add_next_user_first(idx, sel) ==
    IF idx >= Len(sel) THEN <<>> ELSE <<sel[1].id>>

\* add_next_user: the user ids of the calls it issues (none or one)
add_next_user(idx, sel) ==
    IF idx >= Len(sel) THEN <<>> ELSE <<sel[idx + 1].id>>

\* submit_add_members without the is_empty early return
submit_add_members_unchecked(idx, sel) ==
    [index |-> 0, emit |-> <<>>, issue |-> add_next_user(0, sel)]

\* submit_add_members without the reset of the index
submit_add_members_resume(idx, sel) ==
    IF sel = <<>>
    THEN [index |-> idx, emit |-> <<>>, issue |-> <<>>]
    ELSE [index |-> idx, emit |-> <<>>, issue |-> add_next_user(idx, sel)]

\* submit_add_members: new index and the calls issued
submit_add_members(idx, sel) ==
    IF sel = <<>>
    THEN [index |-> idx, emit |-> <<>>, issue |-> <<>>]
    ELSE [index |-> 0, emit |-> <<>>, issue |-> add_next_user(0, sel)]

\* Msg::AddMemberResponse without the `response?` early return: a failed
\* response is reported but the chain goes on as after a success
on_add_member_response_unchecked(ok, idx, sel) ==
    IF idx < Len(sel)
    THEN [index |-> idx + 1,
          emit  |-> <<sel[idx + 1]>>,
          issue |-> IF idx + 1 < Len(sel) THEN add_next_user(idx + 1, sel) ELSE <<>>,
          err   |-> ~ok]
    ELSE [index |-> idx, emit |-> <<>>, issue |-> <<>>, err |-> ~ok]

\* Msg::AddMemberResponse retrying the call of a failed step
on_add_member_response_retry(ok, idx, sel) ==
    IF ~ok
    THEN [index |-> idx, emit |-> <<>>, issue |-> add_next_user(idx, sel), err |-> TRUE]
    ELSE IF idx < Len(sel)
         THEN [index |-> idx + 1,
               emit  |-> <<sel[idx + 1]>>,
               issue |-> IF idx + 1 < Len(sel) THEN add_next_user(idx + 1, sel) ELSE <<>>,
               err   |-> FALSE]
         ELSE [index |-> idx, emit |-> <<>>, issue |-> <<>>, err |-> FALSE]

\* Msg::AddMemberResponse never continuing with the next user
on_add_member_response_stall(ok, idx, sel) ==
    IF ~ok
    THEN [index |-> idx, emit |-> <<>>, issue |-> <<>>, err |-> TRUE]
    ELSE IF idx < Len(sel)
         THEN [index |-> idx + 1, emit |-> <<sel[idx + 1]>>, issue |-> <<>>, err |-> FALSE]
         ELSE [index |-> idx, emit |-> <<>>, issue |-> <<>>, err |-> FALSE]

\* Msg::AddMemberResponse dropping a failed response instead of returning Err
on_add_member_response_swallow(ok, idx, sel) ==
    IF ~ok
    THEN [index |-> idx, emit |-> <<>>, issue |-> <<>>, err |-> FALSE]
    ELSE IF idx < Len(sel)
         THEN [index |-> idx + 1,
               emit  |-> <<sel[idx + 1]>>,
               issue |-> IF idx + 1 < Len(sel) THEN add_next_user(idx + 1, sel) ELSE <<>>,
               err   |-> FALSE]
         ELSE [index |-> idx, emit |-> <<>>, issue |-> <<>>, err |-> FALSE]

\* Msg::AddMemberResponse skipping the positions that repeat the user just added
on_add_member_response_dedup(ok, idx, sel) ==
    IF ~ok
    THEN [index |-> idx, emit |-> <<>>, issue |-> <<>>, err |-> TRUE]
    ELSE IF idx < Len(sel)
         THEN LET later == {j \in (idx + 1) .. (Len(sel) - 1) : sel[j + 1] # sel[idx + 1]}
                  nxt   == IF later = {} THEN Len(sel)
                           ELSE CHOOSE j \in later : \A i \in later : j <= i
              IN  [index |-> nxt,
                   emit  |-> <<sel[idx + 1]>>,
                   issue |-> IF nxt < Len(sel) THEN add_next_user(nxt, sel) ELSE <<>>,
                   err   |-> FALSE]
         ELSE [index |-> idx, emit |-> <<>>, issue |-> <<>>, err |-> FALSE]

\* Msg::AddMemberResponse reading the last selected user when the index is
\* past the end of the list
on_add_member_response_last(ok, idx, sel) ==
    IF ~ok
    THEN [index |-> idx, emit |-> <<>>, issue |-> <<>>, err |-> TRUE]
    ELSE IF idx < Len(sel)
         THEN [index |-> idx + 1,
               emit  |-> <<sel[idx + 1]>>,
               issue |-> IF idx + 1 < Len(sel) THEN add_next_user(idx + 1, sel) ELSE <<>>,
               err   |-> FALSE]
         ELSE [index |-> idx,
               emit  |-> IF sel = <<>> THEN <<>> ELSE <<sel[Len(sel)]>>,
               issue |-> <<>>,
               err   |-> FALSE]

\* Msg::AddMemberResponse: new index, the notifications emitted, the calls issued
\* and whether handle_msg returned Err
on_add_member_response(ok, idx, sel) ==
    IF ~ok
    THEN [index |-> idx, emit |-> <<>>, issue |-> <<>>, err |-> TRUE]
    ELSE IF idx < Len(sel)
         THEN [index |-> idx + 1,
               emit  |-> <<sel[idx + 1]>>,
               issue |-> IF idx + 1 < Len(sel) THEN add_next_user(idx + 1, sel) ELSE <<>>,
               err   |-> FALSE]
         ELSE [index |-> idx, emit |-> <<>>, issue |-> <<>>, err |-> FALSE]

\* str::to_lowercase follows the Unicode case mappings; the model carries them for
\* the characters U+0000..U+04FF (Latin, Greek, Cyrillic), the alphabet its strings
\* are drawn from.
\* The upper-case letters whose lower case is one letter: those of lo..hi, step
\* apart, have their lower case delta further on
LowerRanges ==
    {[lo |-> 65, hi |-> 90, step |-> 1, delta |-> 32],
     [lo |-> 192, hi |-> 214, step |-> 1, delta |-> 32],
     [lo |-> 216, hi |-> 222, step |-> 1, delta |-> 32],
     [lo |-> 256, hi |-> 302, step |-> 2, delta |-> 1],
     [lo |-> 306, hi |-> 310, step |-> 2, delta |-> 1],
     [lo |-> 313, hi |-> 327, step |-> 2, delta |-> 1],
     [lo |-> 330, hi |-> 374, step |-> 2, delta |-> 1],
     [lo |-> 376, hi |-> 376, step |-> 1, delta |-> -121],
     [lo |-> 377, hi |-> 381, step |-> 2, delta |-> 1],
     [lo |-> 385, hi |-> 385, step |-> 1, delta |-> 210],
     [lo |-> 386, hi |-> 388, step |-> 2, delta |-> 1],
     [lo |-> 390, hi |-> 390, step |-> 1, delta |-> 206],
     [lo |-> 391, hi |-> 391, step |-> 1, delta |-> 1],
     [lo |-> 393, hi |-> 394, step |-> 1, delta |-> 205],
     [lo |-> 395, hi |-> 395, step |-> 1, delta |-> 1],
     [lo |-> 398, hi |-> 398, step |-> 1, delta |-> 79],
     [lo |-> 399, hi |-> 399, step |-> 1, delta |-> 202],
     [lo |-> 400, hi |-> 400, step |-> 1, delta |-> 203],
     [lo |-> 401, hi |-> 401, step |-> 1, delta |-> 1],
     [lo |-> 403, hi |-> 403, step |-> 1, delta |-> 205],
     [lo |-> 404, hi |-> 404, step |-> 1, delta |-> 207],
     [lo |-> 406, hi |-> 406, step |-> 1, delta |-> 211],
     [lo |-> 407, hi |-> 407, step |-> 1, delta |-> 209],
     [lo |-> 408, hi |-> 408, step |-> 1, delta |-> 1],
     [lo |-> 412, hi |-> 412, step |-> 1, delta |-> 211],
     [lo |-> 413, hi |-> 413, step |-> 1, delta |-> 213],
     [lo |-> 415, hi |-> 415, step |-> 1, delta |-> 214],
     [lo |-> 416, hi |-> 420, step |-> 2, delta |-> 1],
     [lo |-> 422, hi |-> 422, step |-> 1, delta |-> 218],
     [lo |-> 423, hi |-> 423, step |-> 1, delta |-> 1],
     [lo |-> 425, hi |-> 425, step |-> 1, delta |-> 218],
     [lo |-> 428, hi |-> 428, step |-> 1, delta |-> 1],
     [lo |-> 430, hi |-> 430, step |-> 1, delta |-> 218],
     [lo |-> 431, hi |-> 431, step |-> 1, delta |-> 1],
     [lo |-> 433, hi |-> 434, step |-> 1, delta |-> 217],
     [lo |-> 435, hi |-> 437, step |-> 2, delta |-> 1],
     [lo |-> 439, hi |-> 439, step |-> 1, delta |-> 219],
     [lo |-> 440, hi |-> 440, step |-> 1, delta |-> 1],
     [lo |-> 444, hi |-> 444, step |-> 1, delta |-> 1],
     [lo |-> 452, hi |-> 452, step |-> 1, delta |-> 2],
     [lo |-> 453, hi |-> 453, step |-> 1, delta |-> 1],
     [lo |-> 455, hi |-> 455, step |-> 1, delta |-> 2],
     [lo |-> 456, hi |-> 456, step |-> 1, delta |-> 1],
     [lo |-> 458, hi |-> 458, step |-> 1, delta |-> 2],
     [lo |-> 459, hi |-> 475, step |-> 2, delta |-> 1],
     [lo |-> 478, hi |-> 494, step |-> 2, delta |-> 1],
     [lo |-> 497, hi |-> 497, step |-> 1, delta |-> 2],
     [lo |-> 498, hi |-> 500, step |-> 2, delta |-> 1],
     [lo |-> 502, hi |-> 502, step |-> 1, delta |-> -97],
     [lo |-> 503, hi |-> 503, step |-> 1, delta |-> -56],
     [lo |-> 504, hi |-> 542, step |-> 2, delta |-> 1],
     [lo |-> 544, hi |-> 544, step |-> 1, delta |-> -130],
     [lo |-> 546, hi |-> 562, step |-> 2, delta |-> 1],
     [lo |-> 570, hi |-> 570, step |-> 1, delta |-> 10795],
     [lo |-> 571, hi |-> 571, step |-> 1, delta |-> 1],
     [lo |-> 573, hi |-> 573, step |-> 1, delta |-> -163],
     [lo |-> 574, hi |-> 574, step |-> 1, delta |-> 10792],
     [lo |-> 577, hi |-> 577, step |-> 1, delta |-> 1],
     [lo |-> 579, hi |-> 579, step |-> 1, delta |-> -195],
     [lo |-> 580, hi |-> 580, step |-> 1, delta |-> 69],
     [lo |-> 581, hi |-> 581, step |-> 1, delta |-> 71],
     [lo |-> 582, hi |-> 590, step |-> 2, delta |-> 1],
     [lo |-> 880, hi |-> 882, step |-> 2, delta |-> 1],
     [lo |-> 886, hi |-> 886, step |-> 1, delta |-> 1],
     [lo |-> 895, hi |-> 895, step |-> 1, delta |-> 116],
     [lo |-> 902, hi |-> 902, step |-> 1, delta |-> 38],
     [lo |-> 904, hi |-> 906, step |-> 1, delta |-> 37],
     [lo |-> 908, hi |-> 908, step |-> 1, delta |-> 64],
     [lo |-> 910, hi |-> 911, step |-> 1, delta |-> 63],
     [lo |-> 913, hi |-> 929, step |-> 1, delta |-> 32],
     [lo |-> 931, hi |-> 939, step |-> 1, delta |-> 32],
     [lo |-> 975, hi |-> 975, step |-> 1, delta |-> 8],
     [lo |-> 984, hi |-> 1006, step |-> 2, delta |-> 1],
     [lo |-> 1012, hi |-> 1012, step |-> 1, delta |-> -60],
     [lo |-> 1015, hi |-> 1015, step |-> 1, delta |-> 1],
     [lo |-> 1017, hi |-> 1017, step |-> 1, delta |-> -7],
     [lo |-> 1018, hi |-> 1018, step |-> 1, delta |-> 1],
     [lo |-> 1021, hi |-> 1023, step |-> 1, delta |-> -130],
     [lo |-> 1024, hi |-> 1039, step |-> 1, delta |-> 80],
     [lo |-> 1040, hi |-> 1071, step |-> 1, delta |-> 32],
     [lo |-> 1120, hi |-> 1152, step |-> 2, delta |-> 1],
     [lo |-> 1162, hi |-> 1214, step |-> 2, delta |-> 1],
     [lo |-> 1216, hi |-> 1216, step |-> 1, delta |-> 15],
     [lo |-> 1217, hi |-> 1229, step |-> 2, delta |-> 1],
     [lo |-> 1232, hi |-> 1278, step |-> 2, delta |-> 1]}

\* the letters with the Unicode property Cased (U+0295, a letter without case,
\* is not among them)
Cased ==
    (65..90) \cup (97..122) \cup (192..214) \cup (216..246) \cup (248..442) \cup
    (444..447) \cup (452..659) \cup (662..696) \cup (704..705) \cup (736..740) \cup
    (880..883) \cup (886..887) \cup (890..893) \cup (904..906) \cup (910..929) \cup
    (931..1013) \cup (1015..1153) \cup (1162..1279) \cup
    {170, 181, 186, 837, 895, 902, 908}

\* the characters with the Unicode property Case_Ignorable
Case_Ignorable ==
    (183..184) \cup (688..879) \cup (884..885) \cup (900..901) \cup (1155..1161) \cup
    {39, 46, 58, 94, 96, 168, 173, 175, 180, 890, 903}

\* char::to_lowercase: I with dot above gives two characters
lower_char(c) ==
    IF c = 304 THEN <<105, 775>>
    ELSE LET hits == {r \in LowerRanges : c \in r.lo..r.hi /\ (c - r.lo) % r.step = 0}
         IN  IF hits = {} THEN <<c>> ELSE <<c + (CHOOSE r \in hits : TRUE).delta>>

\* case_ignorable_then_cased: from position i of s in direction d, the first
\* character that is not Case_Ignorable exists and is Cased
RECURSIVE case_ignorable_then_cased(_, _, _)
case_ignorable_then_cased(s, i, d) ==
    IF i < 1 \/ i > Len(s) THEN FALSE
    ELSE IF s[i] \in Case_Ignorable THEN case_ignorable_then_cased(s, i + d, d)
    ELSE s[i] \in Cased

\* map_uppercase_sigma: the capital sigma at position i of s becomes a final
\* sigma at the end of a word, a small sigma elsewhere
map_uppercase_sigma(s, i) ==
    IF case_ignorable_then_cased(s, i - 1, -1) /\ ~case_ignorable_then_cased(s, i + 1, 1)
    THEN 962 ELSE 963

RECURSIVE lower_from(_, _)
lower_from(s, i) ==
    IF i > Len(s) THEN <<>>
    ELSE (IF s[i] = 931 THEN <<map_uppercase_sigma(s, i)>> ELSE lower_char(s[i]))
            \o lower_from(s, i + 1)

\* str::to_lowercase
to_lowercase(s) == lower_from(s, 1)

\* str::contains: pat occurs in text
RECURSIVE contains(_, _)
contains(text, pat) ==
    IF Len(pat) > Len(text) THEN FALSE
    ELSE IF SubSeq(text, 1, Len(pat)) = pat THEN TRUE
    ELSE contains(Tail(text), pat)

\* OnSearchChange comparing the text with the input as typed
on_search_change_exact(options, input) ==
    IF input = <<>> THEN options
    ELSE SelectSeq(options, LAMBDA o : contains(o.text, input))

\* SearchableSelectMsg::OnSearchChange: the new filtered_options
on_search_change(options, input) ==
    LET search == to_lowercase(input)
    IN  IF search = <<>> THEN options
        ELSE SelectSeq(options, LAMBDA o : contains(to_lowercase(o.text), search))

\* OnOptionSelect inserting the value whatever the flag says in multi mode
on_option_select_insert(multi, sel, option, selected) ==
    IF multi
    THEN [selected_options |-> sel \cup {option.value}, emit |-> <<>>]
    ELSE [selected_options |-> IF selected THEN {option.value} ELSE {},
          emit |-> <<IF selected THEN <<option>> ELSE <<>>>>]

\* OnOptionSelect keeping the earlier selection in single mode
on_option_select_keep(multi, sel, option, selected) ==
    IF multi
    THEN [selected_options |-> IF selected THEN sel \cup {option.value}
                                            ELSE sel \ {option.value},
          emit |-> <<>>]
    ELSE [selected_options |-> IF selected THEN sel \cup {option.value} ELSE {},
          emit |-> <<IF selected THEN <<option>> ELSE <<>>>>]

\* OnOptionSelect emitting at each click in multi mode as in single mode
on_option_select_eager(multi, sel, option, selected) ==
    IF multi
    THEN [selected_options |-> IF selected THEN sel \cup {option.value}
                                            ELSE sel \ {option.value},
          emit |-> <<IF selected THEN <<option>> ELSE <<>>>>]
    ELSE [selected_options |-> IF selected THEN {option.value} ELSE {},
          emit |-> <<IF selected THEN <<option>> ELSE <<>>>>]

\* SearchableSelectMsg::OnOptionSelect: the new selected_options and the lists emitted
on_option_select(multi, sel, option, selected) ==
    IF multi
    THEN [selected_options |-> IF selected THEN sel \cup {option.value}
                                            ELSE sel \ {option.value},
          emit |-> <<>>]
    ELSE [selected_options |-> IF selected THEN {option.value} ELSE {},
          emit |-> <<IF selected THEN <<option>> ELSE <<>>>>]

\* OnSubmit emitting the selected options in single mode too
on_submit_single(multi, options, sel) == <<SelectSeq(options, LAMBDA o : o.value \in sel)>>

\* SearchableSelectMsg::OnSubmit: the lists emitted
on_submit(multi, options, sel) ==
    IF multi THEN <<SelectSeq(options, LAMBDA o : o.value \in sel)>> ELSE <<>>

\* the order-preserving subsequence of s at the positions in S
RECURSIVE Pick(_, _)
Pick(s, S) ==
    IF s = <<>> THEN <<>>
    ELSE LET rest == Pick(Tail(s), {i - 1 : i \in S \ {1}})
         IN  IF 1 \in S THEN <<Head(s)>> \o rest ELSE rest

\* the lists the picker can emit: the options whose value is selected, in options order
Emittable(options) == {Pick(options, S) : S \in SUBSET DOMAIN options}

\* ------------------------------------------------------------------- Init
\* no option builder applied yet
NotBuilt == [kind |-> "none", options |-> <<>>]

\* create(): empty widget, the user list requested
Created ==
    /\ user_list = <<>>
    /\ selected_users = <<>>
    /\ current_add_index = 0
    /\ is_task_running = TRUE
    /\ error = <<>>
    /\ props_users = <<>>
    /\ list_pending = TRUE
    /\ pending = {}
    /\ calls = <<>>
    /\ trace = <<>>
    /\ reported = <<>>
    /\ handled = Handled("create", 0, TRUE)
    /\ failures = {}
    /\ job = [id |-> 0, items |-> <<>>, quiet |-> FALSE, undisturbed |-> FALSE, prev |-> 0]
    /\ nsubmit = 0
    /\ nchange = 0
    /\ multiple = TRUE
    /\ filtered_options = <<>>
    /\ selected_options = {}
    /\ search_value = <<>>
    /\ emissions = <<>>
    /\ picks = <<>>

\* no table on the page
NoTable ==
    /\ table_kind = "none"
    /\ table_rows = <<>>
    /\ search_query = <<>>
    /\ table_pending = 0
    /\ table_requests = <<>>
    /\ table_error = <<>>
    /\ table_handled = <<>>

Init ==
    /\ Created
    /\ fetched = <<>>
    /\ members = <<>>
    /\ built = NotBuilt
    /\ NoTable

\* ---------------------------------------------------------------- actions
\* CommonComponentParts: call_graphql marks the task running, the completion of a
\* call (running = FALSE is passed in by the response handlers) marks it idle
task_running_after(issue, running) == IF issue # <<>> THEN TRUE ELSE running

\* the parent's on_user_added_to_group: every committed user joins the members
\* it passes down as Props::users
on_user_added_to_group(users, emitted) == users \o emitted

\* the effect of a handler result r on the widget, the network and the parent:
\* the notifications first, then the calls, which belong to batch b at step k
Apply(r, running, b, k) ==
    /\ current_add_index' = r.index
    /\ calls' = calls \o [i \in DOMAIN r.issue |-> Call(r.issue[i], b, k)]
    /\ pending' = (pending \ {handled'.call}) \cup (Len(calls) + 1 .. Len(calls) + Len(r.issue))
    /\ trace' = trace \o [i \in DOMAIN r.emit |-> CommitEv(r.emit[i], b)]
                      \o [i \in DOMAIN r.issue |-> CallEv(r.issue[i], b)]
    /\ is_task_running' = task_running_after(r.issue, running)
    /\ props_users' = on_user_added_to_group(props_users, r.emit)

\* update_and_report_error: an Err of handle_msg goes to the local slot and to on_error
Report(failed, e) ==
    /\ error' = IF failed THEN <<e>> ELSE error
    /\ reported' = IF failed THEN Append(reported, e) ELSE reported

\* Msg::UserListResponse
UserListResponse(ok) ==
    /\ list_pending
    /\ list_pending' = FALSE
    /\ handled' = Handled("UserListResponse", 0, ok)
    /\ user_list' = IF ok THEN <<FetchedUsers>> ELSE user_list
    /\ is_task_running' = FALSE
    /\ Report(~ok, "list")
    /\ UNCHANGED <<selected_users, current_add_index, props_users, pending, calls,
                   trace, failures, job, nsubmit, nchange>>

\* Msg::SubmitAddMembers returning Err for an empty selection
SubmitAddMembers_validate ==
    /\ nsubmit < MaxSubmits
    /\ nsubmit' = nsubmit + 1
    /\ handled' = Handled("SubmitAddMembers", 0, TRUE)
    /\ LET r == submit_add_members(current_add_index, selected_users)
       IN  /\ Apply(r, is_task_running, nsubmit + 1, 1)
           /\ job' = IF selected_users = <<>>
                     THEN job
                     ELSE [id          |-> nsubmit + 1,
                           items       |-> selected_users,
                           quiet       |-> pending = {},
                           undisturbed |-> pending = {},
                           prev        |-> current_add_index]
    /\ Report(selected_users = <<>>, "validation")
    /\ UNCHANGED <<user_list, selected_users, list_pending, failures, nchange>>

\* Msg::SubmitAddMembers
SubmitAddMembers ==
    /\ nsubmit < MaxSubmits
    /\ nsubmit' = nsubmit + 1
    /\ handled' = Handled("SubmitAddMembers", 0, TRUE)
    /\ LET r == submit_add_members(current_add_index, selected_users)
       IN  /\ Apply(r, is_task_running, nsubmit + 1, 1)
           /\ job' = IF selected_users = <<>>
                     THEN job
                     ELSE [id          |-> nsubmit + 1,
                           items       |-> selected_users,
                           quiet       |-> pending = {},
                           undisturbed |-> pending = {},
                           prev        |-> current_add_index]
    /\ Report(FALSE, "none")
    /\ UNCHANGED <<user_list, selected_users, list_pending, failures, nchange>>

\* Msg::AddMemberResponse for the outstanding call c
AddMemberResponse(c, ok) ==
    /\ c \in pending
    /\ handled' = Handled("AddMemberResponse", c, ok)
    /\ LET r == on_add_member_response(ok, current_add_index, selected_users)
       IN  /\ Apply(r, FALSE, calls[c].batch, calls[c].step + 1)
           /\ Report(r.err, "add")
    /\ failures' = IF ok THEN failures
                   ELSE failures \cup {[batch |-> calls[c].batch, step |-> calls[c].step]}
    /\ job' = IF ok THEN job ELSE [job EXCEPT !.undisturbed = FALSE]
    /\ UNCHANGED <<user_list, selected_users, list_pending, nsubmit, nchange>>

\* Msg::SelectionChanged with a list emitted by the picker
SelectionChanged(options) ==
    /\ nchange < MaxChanges
    /\ nchange' = nchange + 1
    /\ handled' = Handled("SelectionChanged", 0, TRUE)
    /\ selected_users' = users_of_options(options)
    /\ job' = [job EXCEPT !.undisturbed = FALSE]
    /\ Report(FALSE, "none")
    /\ UNCHANGED <<user_list, current_add_index, is_task_running, props_users,
                   list_pending, pending, calls, trace, failures, nsubmit>>

Next ==
    \/ (\E ok \in BOOLEAN : UserListResponse(ok)) /\ UNCHANGED <<picker_vars, option_vars, table_vars>>
    \/ SubmitAddMembers /\ UNCHANGED <<picker_vars, option_vars, table_vars>>
    \/ (\E c \in pending, ok \in BOOLEAN : AddMemberResponse(c, ok)) /\ UNCHANGED <<picker_vars, option_vars, table_vars>>
    \/ /\ \E options \in (IF user_list = <<>> THEN {}
                          ELSE Emittable(get_selectable_options(props_users, user_list[1]))) :
             SelectionChanged(options)
       /\ UNCHANGED <<picker_vars, option_vars, table_vars>>

Spec == Init /\ [][Next]_vars

\* the widget when no user message arrives while a call is outstanding and every
\* call issued is answered: send_future delivers the response of every call
Responses == \E c \in pending, ok \in BOOLEAN : AddMemberResponse(c, ok)

HostResponses == Responses /\ UNCHANGED <<picker_vars, option_vars, table_vars>>

QuietNext ==
    \/ (\E ok \in BOOLEAN : UserListResponse(ok)) /\ UNCHANGED <<picker_vars, option_vars, table_vars>>
    \/ pending = {} /\ SubmitAddMembers /\ UNCHANGED <<picker_vars, option_vars, table_vars>>
    \/ HostResponses
    \/ /\ pending = {}
       /\ \E options \in (IF user_list = <<>> THEN {}
                          ELSE Emittable(get_selectable_options(props_users, user_list[1]))) :
             SelectionChanged(options)
       /\ UNCHANGED <<picker_vars, option_vars, table_vars>>

SpecQuiet == Init /\ [][QuietNext]_vars /\ WF_vars(HostResponses)

\* the lists a SelectionChanged message can carry: options of the picker in any
\* order, the same option at several positions included
AnySelection(options) ==
    UNION {[1..n -> {options[i] : i \in DOMAIN options}] : n \in 0..NumUsers}

RepeatNext ==
    \/ (\E ok \in BOOLEAN : UserListResponse(ok)) /\ UNCHANGED <<picker_vars, option_vars, table_vars>>
    \/ pending = {} /\ SubmitAddMembers /\ UNCHANGED <<picker_vars, option_vars, table_vars>>
    \/ HostResponses
    \/ /\ pending = {}
       /\ \E options \in (IF user_list = <<>> THEN {}
                          ELSE AnySelection(get_selectable_options(props_users, user_list[1]))) :
             SelectionChanged(options)
       /\ UNCHANGED <<picker_vars, option_vars, table_vars>>

SpecRepeat == Init /\ [][RepeatNext]_vars

\* ----------------------------------------------------------------- the picker
\* view of the host: the options handed to the picker as SearchableSelectProps::options
CurrentOptions ==
    IF user_list = <<>> THEN <<>> ELSE get_selectable_options(props_users, user_list[1])

\* view of the host: the picker is rendered once the list is loaded and while
\* there are options to offer
PickerLive == CurrentOptions # <<>>

\* the option of a message that carries none
NoOption == [value |-> <<>>, text |-> <<>>]

\* one message handled by the picker: its arguments (the text typed or the value
\* of the option clicked), the options and the selection it found and the lists
\* it emitted
PickRec(msg, value, option, selected, emit) ==
    [msg |-> msg, value |-> value, option |-> option, selected |-> selected,
     emit |-> emit, options |-> CurrentOptions, before |-> selected_options]

\* on_selection_change is link.callback(Msg::SelectionChanged) of the host
Deliver(emit) ==
    IF emit = <<>> THEN UNCHANGED host_vars ELSE SelectionChanged(emit[1])

\* the list arrives and the host renders the picker: SearchableSelect::create
CreatePicker ==
    /\ UserListResponse(TRUE)
    /\ multiple' \in BOOLEAN
    /\ filtered_options' = get_selectable_options(props_users, FetchedUsers)
    /\ selected_options' = {}
    /\ UNCHANGED <<search_value, emissions, picks>>

\* OnSearchChange dropping the hidden options from the selection
OnSearchChange_deselect(input) ==
    /\ PickerLive
    /\ Len(picks) < MaxPicks
    /\ search_value' = input
    /\ filtered_options' = on_search_change(CurrentOptions, input)
    /\ selected_options' = {v \in selected_options :
                               \E i \in DOMAIN filtered_options' : filtered_options'[i].value = v}
    /\ picks' = Append(picks, PickRec("OnSearchChange", input, NoOption, FALSE, <<>>))
    /\ UNCHANGED <<multiple, emissions>>
    /\ UNCHANGED host_vars

\* SearchableSelectMsg::OnSearchChange, the search box holding input
OnSearchChange(input) ==
    /\ PickerLive
    /\ Len(picks) < MaxPicks
    /\ search_value' = input
    /\ filtered_options' = on_search_change(CurrentOptions, input)
    /\ picks' = Append(picks, PickRec("OnSearchChange", input, NoOption, FALSE, <<>>))
    /\ UNCHANGED <<multiple, selected_options, emissions>>
    /\ UNCHANGED host_vars

\* SearchableSelectMsg::OnOptionSelect(option, selected)
OnOptionSelect(option, selected) ==
    /\ PickerLive
    /\ Len(picks) < MaxPicks
    /\ LET r == on_option_select(multiple, selected_options, option, selected)
       IN  /\ selected_options' = r.selected_options
           /\ emissions' = emissions \o r.emit
           /\ picks' = Append(picks, PickRec("OnOptionSelect", option.value, option, selected, r.emit))
           /\ Deliver(r.emit)
    /\ UNCHANGED <<multiple, filtered_options, search_value>>

\* view: a click on a rendered option sends OnOptionSelect(option, !is_selected)
Click ==
    \E i \in DOMAIN filtered_options :
        OnOptionSelect(filtered_options[i], filtered_options[i].value \notin selected_options)

\* OnSubmit emitting from the rendered options
OnSubmit_filtered ==
    /\ PickerLive
    /\ Len(picks) < MaxPicks
    /\ LET emit == on_submit(multiple, filtered_options, selected_options)
       IN  /\ emissions' = emissions \o emit
           /\ picks' = Append(picks, PickRec("OnSubmit", <<>>, NoOption, FALSE, emit))
           /\ Deliver(emit)
    /\ UNCHANGED <<multiple, filtered_options, selected_options, search_value>>

\* OnSubmit clearing the selection once it is emitted
OnSubmit_clear ==
    /\ PickerLive
    /\ Len(picks) < MaxPicks
    /\ LET emit == on_submit(multiple, CurrentOptions, selected_options)
       IN  /\ emissions' = emissions \o emit
           /\ picks' = Append(picks, PickRec("OnSubmit", <<>>, NoOption, FALSE, emit))
           /\ Deliver(emit)
    /\ selected_options' = {}
    /\ UNCHANGED <<multiple, filtered_options, search_value>>

\* SearchableSelectMsg::OnSubmit
OnSubmit ==
    /\ PickerLive
    /\ Len(picks) < MaxPicks
    /\ LET emit == on_submit(multiple, CurrentOptions, selected_options)
       IN  /\ emissions' = emissions \o emit
           /\ picks' = Append(picks, PickRec("OnSubmit", <<>>, NoOption, FALSE, emit))
           /\ Deliver(emit)
    /\ UNCHANGED <<multiple, filtered_options, selected_options, search_value>>

\* the submit button disabled for an empty selection only
SubmitEnabled_nonempty == PickerLive /\ selected_users # <<>>

\* view of the host: the submit button is rendered, next to the picker, and enabled
SubmitEnabled == PickerLive /\ selected_users # <<>> /\ ~is_task_running

PickerNext ==
    \/ CreatePicker /\ UNCHANGED <<option_vars, table_vars>>
    \/ (\E input \in Queries : OnSearchChange(input)) /\ UNCHANGED <<option_vars, table_vars>>
    \/ Click /\ UNCHANGED <<option_vars, table_vars>>
    \/ OnSubmit /\ UNCHANGED <<option_vars, table_vars>>
    \/ SubmitEnabled /\ SubmitAddMembers /\ UNCHANGED <<picker_vars, option_vars, table_vars>>
    \/ HostResponses

SpecPicker == Init /\ [][PickerNext]_vars

\* the host alone, SubmitAddMembers produced by its enabled button only
EnabledNext ==
    \/ (\E ok \in BOOLEAN : UserListResponse(ok)) /\ UNCHANGED <<picker_vars, option_vars, table_vars>>
    \/ SubmitEnabled /\ SubmitAddMembers /\ UNCHANGED <<picker_vars, option_vars, table_vars>>
    \/ HostResponses
    \/ /\ \E options \in (IF PickerLive THEN Emittable(CurrentOptions) ELSE {}) :
             SelectionChanged(options)
       /\ UNCHANGED <<picker_vars, option_vars, table_vars>>

SpecEnabled == Init /\ [][EnabledNext]_vars

\* ------------------------------------------------------- the option builders
\* i64::to_string of a group id
RECURSIVE to_string(_)
to_string(n) == IF n < 10 THEN <<48 + n>> ELSE to_string(n \div 10) \o <<48 + (n % 10)>>

\* the display names of the entities drawn: none and "Bb"
Names == {<<>>, <<66, 98>>}

\* the entity lists drawn, an entity being a number and a display name
EntityLists ==
    UNION {[1..n -> [k : 1..NumUsers, name : Names]] : n \in 0..MaxListLen}

\* the list as the users of add_group_member.rs, with string ids
UsersOf(list) ==
    [i \in DOMAIN list |-> [id |-> IdOf(list[i].k), display_name |-> list[i].name]]

\* the list as the groups of add_user_to_group.rs, with i64 ids
GroupsOf(list) ==
    [i \in DOMAIN list |-> [id |-> list[i].k, display_name |-> list[i].name]]

\* get_selectable_group_list: the fetched groups that are not in Props::groups
get_selectable_group_list(groups, list) ==
    SelectSeq(list, LAMBDA g : \A i \in DOMAIN groups : groups[i] # g)

\* get_selectable_options of the group picker
get_selectable_group_options(groups, list) ==
    LET l == get_selectable_group_list(groups, list)
    IN  [i \in DOMAIN l |-> [value |-> to_string(l[i].id), text |-> l[i].display_name]]

\* the lists arrive: the widget is created with some members and some fetched list
OptionsInit ==
    /\ Created
    /\ fetched \in EntityLists
    /\ members \in EntityLists
    /\ built = NotBuilt
    /\ NoTable

\* view of AddGroupMemberComponent building the options of its picker
BuildUserOptions ==
    /\ built.kind = "none"
    /\ built' = [kind    |-> "user",
                 options |-> get_selectable_options(UsersOf(members), UsersOf(fetched))]
    /\ UNCHANGED <<host_vars, picker_vars, fetched, members, table_vars>>

\* view of AddUserToGroupComponent building the options of its picker
BuildGroupOptions ==
    /\ built.kind = "none"
    /\ built' = [kind    |-> "group",
                 options |-> get_selectable_group_options(GroupsOf(members), GroupsOf(fetched))]
    /\ UNCHANGED <<host_vars, picker_vars, fetched, members, table_vars>>

OptionsNext ==
    \/ BuildUserOptions
    \/ BuildGroupOptions

SpecOptions == OptionsInit /\ [][OptionsNext]_vars

\* ------------------------------------------------------------------ the tables
\* the ids of the rows of an answer of n rows: they cycle through 1..NumUsers, so
\* the longest answer repeats an id
RowIds(n) == [i \in 1..n |-> ((i - 1) % NumUsers) + 1]

Reverse(s) == [i \in DOMAIN s |-> s[Len(s) + 1 - i]]

\* the answers of the server to a list call, as the ids of their rows
Answers ==
    {RowIds(n) : n \in 0..(NumUsers + 1)} \cup {Reverse(RowIds(n)) : n \in 0..(NumUsers + 1)}

\* the row at position i of an answer: a user has a string id, a group an i64 id
TableRow(kind, k, i) ==
    [id |-> IF kind = "user" THEN IdOf(k) ELSE k, display_name |-> <<64 + i>>]

\* ResponseData::users / ResponseData::groups of an answer
AnswerRows(kind, ids) == [i \in DOMAIN ids |-> TableRow(kind, ids[i], i)]

\* the id a deleted notification carries
DeletedId(kind, k) == IF kind = "user" THEN IdOf(k) ELSE k

\* the texts typed into the search box of a table: "" and "u1"
TableQueries == {<<>>, IdOf(1)}

\* Msg::OnUserDeleted removing the first row with the id only
on_deleted_first(rows, id) ==
    LET hits == {i \in DOMAIN rows[1] : rows[1][i].id = id}
    IN  IF hits = {} THEN rows
        ELSE LET first == CHOOSE i \in hits : \A j \in hits : i <= j
             IN  <<SubSeq(rows[1], 1, first - 1) \o SubSeq(rows[1], first + 1, Len(rows[1]))>>

\* Msg::OnUserDeleted / Msg::OnGroupDeleted: retain the rows with another id
on_deleted(rows, id) == <<SelectSeq(rows[1], LAMBDA u : u.id # id)>>

\* Msg::ListUsersResponse / Msg::ListGroupsResponse: the new list
on_list_response(ok, rows, answer) == IF ok THEN <<answer>> ELSE rows

\* Msg::SearchUsers / Msg::SearchGroups: the filter of the list call issued, the
\* group table sending none
search_filter(kind, query) == IF kind = "user" /\ query # <<>> THEN <<query>> ELSE <<>>

\* CommonComponentParts::update: an Err of handle_msg goes to the error slot
TableReport(failed, e) == table_error' = IF failed THEN <<e>> ELSE table_error

\* one message handled by a table, with the list it found
TableRec(msg, arg, ok) == [msg |-> msg, arg |-> arg, ok |-> ok, before |-> table_rows]

\* create(): no list yet, the list requested without a filter
TableInit ==
    /\ Created
    /\ fetched = <<>>
    /\ members = <<>>
    /\ built = NotBuilt
    /\ table_kind \in {"user", "group"}
    /\ table_rows = <<>>
    /\ search_query = <<>>
    /\ table_pending = 1
    /\ table_requests = <<<<>>>>
    /\ table_error = <<>>
    /\ table_handled = <<>>

\* Msg::ListUsersResponse / Msg::ListGroupsResponse
ListResponse(ok, ids) ==
    /\ table_pending > 0
    /\ Len(table_handled) < MaxTableMsgs
    /\ table_pending' = table_pending - 1
    /\ table_rows' = on_list_response(ok, table_rows, AnswerRows(table_kind, ids))
    /\ TableReport(~ok, "list")
    /\ table_handled' = Append(table_handled, TableRec("ListResponse", ids, ok))
    /\ UNCHANGED <<table_kind, search_query, table_requests>>

\* Msg::OnUserDeleted / Msg::OnGroupDeleted, sent by the delete button of a row
OnDeleted(k) ==
    /\ table_rows # <<>>
    /\ Len(table_handled) < MaxTableMsgs
    /\ table_rows' = on_deleted(table_rows, DeletedId(table_kind, k))
    /\ TableReport(FALSE, "none")
    /\ table_handled' = Append(table_handled, TableRec("OnDeleted", DeletedId(table_kind, k), TRUE))
    /\ UNCHANGED <<table_kind, search_query, table_pending, table_requests>>

\* Msg::OnError
OnError ==
    /\ Len(table_handled) < MaxTableMsgs
    /\ TableReport(TRUE, "child")
    /\ table_handled' = Append(table_handled, TableRec("OnError", <<>>, FALSE))
    /\ UNCHANGED <<table_kind, table_rows, search_query, table_pending, table_requests>>

\* Msg::OnSearchChange
OnTableSearchChange(query) ==
    /\ Len(table_handled) < MaxTableMsgs
    /\ search_query' = query
    /\ TableReport(FALSE, "none")
    /\ table_handled' = Append(table_handled, TableRec("OnSearchChange", query, TRUE))
    /\ UNCHANGED <<table_kind, table_rows, table_pending, table_requests>>

\* Msg::SearchUsers / Msg::SearchGroups
Search ==
    /\ Len(table_handled) < MaxTableMsgs
    /\ table_requests' = Append(table_requests, search_filter(table_kind, search_query))
    /\ table_pending' = table_pending + 1
    /\ TableReport(FALSE, "none")
    /\ table_handled' = Append(table_handled, TableRec("Search", search_query, TRUE))
    /\ UNCHANGED <<table_kind, table_rows, search_query>>

TableNext ==
    \/ (\E ok \in BOOLEAN, ids \in Answers : ListResponse(ok, ids))
          /\ UNCHANGED <<host_vars, picker_vars, option_vars>>
    \/ (\E k \in 1..NumUsers : OnDeleted(k)) /\ UNCHANGED <<host_vars, picker_vars, option_vars>>
    \/ OnError /\ UNCHANGED <<host_vars, picker_vars, option_vars>>
    \/ (\E query \in TableQueries : OnTableSearchChange(query))
          /\ UNCHANGED <<host_vars, picker_vars, option_vars>>
    \/ Search /\ UNCHANGED <<host_vars, picker_vars, option_vars>>

SpecTable == TableInit /\ [][TableNext]_vars


\* ------------------------------------------------------------- properties
\* the calls issued by batch b and the notifications emitted by it, in order
EventsOf(b) == SelectSeq(trace, LAMBDA e : e.batch = b)

CallsOf(b) == SelectSeq(trace, LAMBDA e : e.batch = b /\ e.t = "call")

CommitsOf(b) == SelectSeq(trace, LAMBDA e : e.batch = b /\ e.t = "commit")

\* call, commit, call, commit, ... for the items in order
Expected(items, b) ==
    [j \in 1..2 * Len(items) |->
        IF j % 2 = 1 THEN CallEv(items[(j + 1) \div 2].id, b) ELSE CommitEv(items[j \div 2], b)]

\* the step just taken handled the response of the outstanding call handled'.call
ResponseStep ==
    /\ handled'.msg = "AddMemberResponse"
    /\ handled'.call \in pending
    /\ handled'.call \notin pending'

\* the step just taken handled a SubmitAddMembers message
SubmitStep ==
    /\ handled'.msg = "SubmitAddMembers"
    /\ nsubmit' = nsubmit + 1

\* C1: a batch of N items submitted while no call is outstanding, whose calls all
\* succeed and during which no submit and no selection change is handled, issues
\* the calls for items[0..N-1] in order, each after the committed notification of
\* the one before, emits the notifications in the same order, has at most one
\* call outstanding and stops with index N, N calls and no call outstanding.
C1_AllSucceedInOrder ==
    job.undisturbed =>
        /\ Cardinality(pending) <= 1
        /\ current_add_index <= Len(job.items)
        /\ Len(EventsOf(job.id)) = 2 * current_add_index + Cardinality(pending)
        /\ EventsOf(job.id) = SubSeq(Expected(job.items, job.id), 1, Len(EventsOf(job.id)))
        /\ (pending = {} => /\ current_add_index = Len(job.items)
                            /\ Len(CallsOf(job.id)) = Len(job.items)
                            /\ EventsOf(job.id) = Expected(job.items, job.id))

\* Scenario 1: every fetched user selected, every call succeeded, batch over
C1_Witness ==
    /\ job.undisturbed
    /\ pending = {}
    /\ Len(job.items) = NumUsers
    /\ current_add_index = NumUsers

\* C2: when the call of step i of a batch has failed, that batch has issued
\* exactly i calls (none for the steps after i) and has emitted exactly i-1
\* committed notifications, in that state and ever after.
C2_FailureStopsBatch ==
    \A f \in failures :
        /\ Len(CallsOf(f.batch)) = f.step
        /\ Len(CommitsOf(f.batch)) = f.step - 1

\* the first call of a batch of several items has failed and every call has completed
C2_Witness ==
    /\ Len(job.items) > 1
    /\ [batch |-> job.id, step |-> 1] \in failures
    /\ Len(CallsOf(job.id)) = 1
    /\ pending = {}

\* C3: a submit handled while the selected list is empty issues no call, emits
\* no committed notification and leaves the index and the selected list alone.
C3_EmptySubmitNoOp ==
    [][(SubmitStep /\ selected_users = <<>>) =>
          /\ current_add_index' = current_add_index
          /\ selected_users' = selected_users
          /\ calls' = calls
          /\ pending' = pending
          /\ trace' = trace
          /\ props_users' = props_users
          /\ is_task_running' = is_task_running]_vars

\* an empty submit was handled after an earlier batch had advanced the index
C3_Witness ==
    /\ handled.msg = "SubmitAddMembers"
    /\ selected_users = <<>>
    /\ current_add_index > 0
    /\ trace # <<>>

\* C4: the k-th call of a batch (submitted while no call was outstanding) is
\* for the k-th item of the list submitted, and the k-th committed notification
\* carries that item, whatever SelectionChanged messages arrive meanwhile.
C4_ItemsFixedAtSubmit ==
    job.quiet =>
        /\ \A k \in DOMAIN CallsOf(job.id) :
              k <= Len(job.items) /\ CallsOf(job.id)[k].id = job.items[k].id
        /\ \A k \in DOMAIN CommitsOf(job.id) :
              k <= Len(job.items) /\ CommitsOf(job.id)[k].user = job.items[k]

\* C5: at most one mutation call is outstanding in every reachable state (a
\* submit handled while a call is outstanding dispatches no second call).
C5_OneCallOutstanding == Cardinality(pending) <= 1

\* C6: handling the completion of a call after which a newer call was started
\* leaves the index alone, emits no notification and issues no call.
C6_StaleCompletionDiscarded ==
    [][(ResponseStep /\ handled'.call < Len(calls)) =>
          /\ current_add_index' = current_add_index
          /\ trace' = trace
          /\ calls' = calls]_vars

\* C7: between two submits the index changes only while a successful response
\* is handled, by exactly +1, and it stays within [0, number of items submitted].
C7_CursorStepsByOne ==
    /\ [](current_add_index \in 0..Len(job.items))
    /\ [][(current_add_index' # current_add_index /\ ~SubmitStep) =>
             /\ ResponseStep
             /\ handled'.ok
             /\ current_add_index' = current_add_index + 1]_vars

\* C8: handling a failed response leaves the index at the failed item, emits no
\* notification, issues no call (no retry, no compensation) and leaves the
\* members committed so far in place.
C8_FailureHalts ==
    [][(ResponseStep /\ ~handled'.ok) =>
          /\ current_add_index' = current_add_index
          /\ trace' = trace
          /\ calls' = calls
          /\ pending' = pending \ {handled'.call}
          /\ props_users' = props_users
          /\ selected_users' = selected_users]_vars

\* Scenario 2: the first of two calls succeeded, the second failed
C8_Witness ==
    /\ handled.msg = "AddMemberResponse"
    /\ ~handled.ok
    /\ job.quiet
    /\ Len(job.items) = 2
    /\ [batch |-> job.id, step |-> 2] \in failures
    /\ current_add_index = 1
    /\ Len(CallsOf(job.id)) = 2
    /\ CommitsOf(job.id) = <<CommitEv(job.items[1], job.id)>>
    /\ props_users = <<job.items[1]>>
    /\ pending = {}

\* C9: handling a successful response emits exactly one committed notification,
\* for the entity whose call succeeded, before any further call is issued.
C9_CommitPerSuccess ==
    [][(ResponseStep /\ handled'.ok) =>
          /\ Len(trace') > Len(trace)
          /\ trace'[Len(trace) + 1].t = "commit"
          /\ trace'[Len(trace) + 1].id = calls[handled'.call].id
          /\ \A j \in Len(trace) + 2 .. Len(trace') : trace'[j].t = "call"]_vars

\* C10: a submit with a non-empty selected list sets the index to 0 and issues
\* exactly one call, for the first selected item, whatever the index was.
C10_SubmitStartsAtZero ==
    [][(SubmitStep /\ selected_users # <<>>) =>
          /\ current_add_index' = 0
          /\ Len(calls') = Len(calls) + 1
          /\ calls'[Len(calls')].id = selected_users[1].id
          /\ Len(trace') = Len(trace) + 1
          /\ trace'[Len(trace')].t = "call"
          /\ trace'[Len(trace')].id = selected_users[1].id
          /\ pending' = pending \cup {Len(calls')}]_vars

\* a batch that failed at its second step was followed by a new submit
C10_Witness ==
    /\ handled.msg = "SubmitAddMembers"
    /\ job.quiet
    /\ job.prev > 0
    /\ \E f \in failures : f.batch < job.id /\ f.step = 2
    /\ current_add_index = 0
    /\ pending = {Len(calls)}

\* C11: when every call is answered and no user message arrives while a call is
\* outstanding, a batch with a call outstanding eventually stops with no call
\* outstanding, either done (index = number of items) or failed.
C11_BatchStops ==
    (pending # {}) ~>
        (/\ pending = {}
         /\ \/ current_add_index = Len(job.items)
            \/ \E f \in failures : f.batch = job.id)

\* a batch that failed was followed by a batch that ran to its end
C11_Witness ==
    /\ pending = {}
    /\ job.id > 1
    /\ \E f \in failures : f.batch < job.id
    /\ ~ \E f \in failures : f.batch = job.id
    /\ Len(job.items) = NumUsers
    /\ current_add_index = Len(job.items)

\* ---------------------------------------------------- properties of the picker
\* text, case-folded, contains q, case-folded, at some offset
Matches(text, q) ==
    LET t == to_lowercase(text)
        p == to_lowercase(q)
    IN  \E i \in 0 .. (Len(t) - Len(p)) : SubSeq(t, i + 1, i + Len(p)) = p

\* the options whose text matches q, in the order of options
FilterOf(options, q) == Pick(options, {i \in DOMAIN options : Matches(options[i].text, q)})

\* the options whose value is selected, in the order of options
SelectedOf(options, sel) == Pick(options, {i \in DOMAIN options : options[i].value \in sel})

IsSubsequence(a, b) == \E S \in SUBSET DOMAIN b : a = Pick(b, S)

Values(options) == {options[i].value : i \in DOMAIN options}

Items(list) == {list[i] : i \in DOMAIN list}

MemberIds == {props_users[i].id : i \in DOMAIN props_users}

\* the n-th message from the end among those the picker has handled
LastPick(n) == picks[Len(picks) + 1 - n]

\* the picker handles a message in this step
PickStep(msg) ==
    /\ Len(picks') = Len(picks) + 1
    /\ picks'[Len(picks')].msg = msg

\* C12: while the picker is rendered, filtered_options is an order-preserving
\* subsequence of the options the parent currently passes and equals the filter
\* of these options by the current query, also after the parent replaced them.
C12_FilteredFollowsOptions ==
    PickerLive =>
        /\ IsSubsequence(filtered_options, CurrentOptions)
        /\ filtered_options = FilterOf(CurrentOptions, search_value)

\* C13: the options handed to the picker are the fetched entities whose id is
\* not the id of a current member, whatever the display names, in fetched order.
C13_MembersExcludedById ==
    user_list # <<>> =>
        CurrentOptions =
            get_selectable_options(<<>>,
                Pick(user_list[1], {i \in DOMAIN user_list[1] : user_list[1][i].id \notin MemberIds}))

\* C14: the picker renders no option whose value is the id of a current member,
\* whatever the query; a committed entity the parent added is no longer offered.
C14_NoMemberRendered ==
    PickerLive => \A i \in DOMAIN filtered_options : filtered_options[i].value \notin MemberIds

\* C15: after OnSearchChange with query q, filtered_options is the subsequence
\* of options whose lower-cased text contains q lower-cased; the empty query
\* yields all options; the same query handled again gives the same list.
C15_SearchFilters ==
    [][PickStep("OnSearchChange") =>
          /\ filtered_options' = FilterOf(CurrentOptions, search_value')
          /\ (search_value' = <<>> => filtered_options' = CurrentOptions)
          /\ (/\ picks # <<>>
              /\ LastPick(1).msg = "OnSearchChange"
              /\ LastPick(1).value = search_value'
              /\ LastPick(1).options = CurrentOptions
              => filtered_options' = filtered_options)]_vars

\* the query "\u00e9A" was handled twice in a row and kept the option with text
\* "\u00c9a" only
C15_Witness ==
    /\ Len(picks) >= 2
    /\ LastPick(1).msg = "OnSearchChange" /\ LastPick(2).msg = "OnSearchChange"
    /\ LastPick(1).value = <<233, 65>> /\ LastPick(2).value = <<233, 65>>
    /\ LastPick(1).options = LastPick(2).options
    /\ Len(LastPick(1).options) > 1
    /\ Len(filtered_options) = 1
    /\ filtered_options[1].text = <<201, 97>>

\* C16: a change of the query leaves selected_options alone, and a later submit
\* in multi mode emits every selected option, hidden by the filter or not.
C16_SearchKeepsSelection ==
    [][/\ PickStep("OnSearchChange") => selected_options' = selected_options
       /\ (PickStep("OnSubmit") /\ multiple) =>
             /\ Len(emissions') = Len(emissions) + 1
             /\ \A o \in Items(CurrentOptions) :
                   o.value \in selected_options => o \in Items(emissions'[Len(emissions')])]_vars

\* an option was selected, a query hid it, and the submit emitted it
C16_Witness ==
    /\ multiple
    /\ Len(picks) >= 3
    /\ LastPick(1).msg = "OnSubmit"
    /\ LastPick(2).msg = "OnSearchChange"
    /\ LastPick(3).msg = "OnOptionSelect" /\ LastPick(3).selected
    /\ LastPick(3).value \notin Values(filtered_options)
    /\ LastPick(3).value \in selected_options
    /\ LastPick(3).value \in Values(emissions[Len(emissions)])

\* C17: in multi mode two toggles of the same option in a row return
\* selected_options to its value before the first of them.
C17_ToggleTwice ==
    (/\ multiple
     /\ Len(picks) >= 2
     /\ LastPick(1).msg = "OnOptionSelect" /\ LastPick(2).msg = "OnOptionSelect"
     /\ LastPick(1).value = LastPick(2).value
     /\ LastPick(2).selected = (LastPick(2).value \notin LastPick(2).before)
     /\ LastPick(1).selected = (LastPick(1).value \notin LastPick(1).before))
    => selected_options = LastPick(2).before

\* an option was toggled on and off again while another option stayed selected
C17_Witness ==
    /\ multiple
    /\ Len(picks) >= 3
    /\ LastPick(1).msg = "OnOptionSelect" /\ LastPick(2).msg = "OnOptionSelect"
    /\ LastPick(1).value = LastPick(2).value
    /\ LastPick(2).selected /\ ~LastPick(1).selected
    /\ LastPick(2).before # {}
    /\ selected_options = LastPick(2).before

\* C18: in multi mode OnSubmit emits exactly one list, the current options whose
\* value is in selected_options, in options order.
C18_SubmitEmitsSelected ==
    [][(PickStep("OnSubmit") /\ multiple) =>
          emissions' = Append(emissions, SelectedOf(CurrentOptions, selected_options))]_vars

\* the second option was clicked before the first and the submit emitted both in
\* options order
C18_Witness ==
    /\ multiple
    /\ Len(picks) >= 3
    /\ LastPick(1).msg = "OnSubmit"
    /\ LastPick(2).msg = "OnOptionSelect" /\ LastPick(2).selected
    /\ LastPick(3).msg = "OnOptionSelect" /\ LastPick(3).selected
    /\ Len(LastPick(1).options) >= 2
    /\ LastPick(2).value = LastPick(1).options[1].value
    /\ LastPick(3).value = LastPick(1).options[2].value
    /\ Len(emissions) = 1
    /\ Len(emissions[1]) >= 2
    /\ emissions[1][1].value = LastPick(2).value
    /\ emissions[1][2].value = LastPick(3).value

\* C19: in multi mode an OnSubmit handled while selected_options is empty emits
\* nothing and leaves the selected list of the parent alone.
C19_EmptySubmitSilent ==
    [][(PickStep("OnSubmit") /\ multiple /\ selected_options = {}) =>
          /\ emissions' = emissions
          /\ selected_users' = selected_users]_vars

\* C20: in single mode selecting A and then B leaves selected_options = {B} and
\* these two messages emit exactly two lists, [A] and then [B].
C20_SingleSelectsLast ==
    (/\ ~multiple
     /\ Len(picks) >= 2
     /\ LastPick(1).msg = "OnOptionSelect" /\ LastPick(1).selected
     /\ LastPick(2).msg = "OnOptionSelect" /\ LastPick(2).selected
     /\ LastPick(1).value # LastPick(2).value)
    => /\ selected_options = {LastPick(1).value}
       /\ LastPick(2).emit = <<<<LastPick(2).option>>>>
       /\ LastPick(1).emit = <<<<LastPick(1).option>>>>
       /\ Len(emissions) >= 2
       /\ SubSeq(emissions, Len(emissions) - 1, Len(emissions)) = LastPick(2).emit \o LastPick(1).emit

\* in single mode two different options were selected one after the other
C20_Witness ==
    /\ ~multiple
    /\ Len(picks) >= 2
    /\ LastPick(1).msg = "OnOptionSelect" /\ LastPick(1).selected
    /\ LastPick(2).msg = "OnOptionSelect" /\ LastPick(2).selected
    /\ LastPick(1).value # LastPick(2).value
    /\ selected_options = {LastPick(1).value}
    /\ Len(emissions) = 2
    /\ emissions[1][1].value = LastPick(2).value
    /\ emissions[2][1].value = LastPick(1).value

\* C21: in single mode selected_options never holds more than one value, every
\* OnOptionSelect emits at once one list equal to the selection it leaves (the
\* option clicked, or nothing when it was turned off), and OnSubmit emits nothing.
C21_SingleModeEmitsEachToggle ==
    [][~multiple' =>
          /\ Cardinality(selected_options') <= 1
          /\ PickStep("OnOptionSelect") =>
                /\ Len(emissions') = Len(emissions) + 1
                /\ SubSeq(emissions', 1, Len(emissions)) = emissions
                /\ emissions'[Len(emissions')] =
                      SelectedOf(<<picks'[Len(picks')].option>>, selected_options')
          /\ PickStep("OnSubmit") => emissions' = emissions /\ UNCHANGED host_vars]_vars

\* in single mode an option was selected and turned off again, then a submit
\* arrived: two emissions, the option and the empty list
C21_Witness ==
    /\ ~multiple
    /\ Len(picks) >= 3
    /\ LastPick(1).msg = "OnSubmit"
    /\ LastPick(2).msg = "OnOptionSelect" /\ ~LastPick(2).selected
    /\ LastPick(3).msg = "OnOptionSelect" /\ LastPick(3).selected
    /\ LastPick(2).value = LastPick(3).value
    /\ selected_options = {}
    /\ emissions = <<<<LastPick(3).option>>, <<>>>>

\* C22 as stated: OnSubmit leaves selected_options unchanged and a second
\* OnSubmit with no toggle in between emits the same list again.
C22_SecondSubmitSameList ==
    [][PickStep("OnSubmit") =>
          /\ selected_options' = selected_options
          /\ (multiple /\ picks # <<>> /\ LastPick(1).msg = "OnSubmit") =>
                emissions' = Append(emissions, emissions[Len(emissions)])]_vars

\* C22 amended: OnSubmit leaves selected_options unchanged and a second OnSubmit
\* with no toggle in between emits the same list again when the parent has not
\* replaced the options of the picker meanwhile.
C22_SubmitKeepsSelection ==
    [][PickStep("OnSubmit") =>
          /\ selected_options' = selected_options
          /\ (/\ multiple
              /\ picks # <<>>
              /\ LastPick(1).msg = "OnSubmit"
              /\ LastPick(1).options = CurrentOptions) =>
                emissions' = Append(emissions, emissions[Len(emissions)])]_vars

\* an option was selected and two submits in a row emitted it twice
C22_Witness ==
    /\ multiple
    /\ Len(picks) >= 3
    /\ LastPick(1).msg = "OnSubmit" /\ LastPick(2).msg = "OnSubmit"
    /\ LastPick(3).msg = "OnOptionSelect" /\ LastPick(3).selected
    /\ LastPick(1).options = LastPick(2).options
    /\ selected_options = {LastPick(3).value}
    /\ emissions = <<<<LastPick(3).option>>, <<LastPick(3).option>>>>

\* C26: in multi mode OnOptionSelect and OnSearchChange emit nothing and leave
\* the host alone; a list is emitted, and the selected list of the parent
\* changes, only in a step that handles OnSubmit.
C26_MultiEmitsOnSubmitOnly ==
    [][multiple' =>
          /\ (PickStep("OnOptionSelect") \/ PickStep("OnSearchChange")) =>
                emissions' = emissions /\ UNCHANGED host_vars
          /\ emissions' # emissions => PickStep("OnSubmit")
          /\ selected_users' # selected_users => PickStep("OnSubmit")]_vars

\* in multi mode a query and a click emitted nothing and the submit after them
\* gave the parent its first selected list
C26_Witness ==
    /\ multiple
    /\ Len(picks) >= 3
    /\ LastPick(1).msg = "OnSubmit"
    /\ LastPick(2).msg = "OnOptionSelect" /\ LastPick(2).selected
    /\ LastPick(3).msg = "OnSearchChange" /\ LastPick(3).value # <<>>
    /\ Len(emissions) = 1
    /\ nchange = 1
    /\ selected_users = users_of_options(<<LastPick(2).option>>)

\* C27: a batch whose list holds the same entity at two positions issues a call
\* for each position and emits a notification for each successful one: while all
\* calls of the batch succeed, position by position, nothing is skipped or merged.
C27_EachPositionMutated ==
    (job.id > 0 /\ job.undisturbed) =>
        /\ Len(CommitsOf(job.id)) = current_add_index
        /\ Len(CallsOf(job.id)) = current_add_index + Cardinality(pending)
        /\ Len(CallsOf(job.id)) <= Len(job.items)
        /\ \A k \in DOMAIN CallsOf(job.id) : CallsOf(job.id)[k].id = job.items[k].id
        /\ \A k \in DOMAIN CommitsOf(job.id) : CommitsOf(job.id)[k].user = job.items[k]
        /\ pending = {} => current_add_index = Len(job.items)

\* a batch of the same entity at its first two positions ran to its end: two
\* calls and two notifications for it
C27_Witness ==
    /\ job.id > 0
    /\ job.undisturbed
    /\ Len(job.items) >= 2
    /\ job.items[1] = job.items[2]
    /\ pending = {}
    /\ current_add_index = Len(job.items)
    /\ Len(CommitsOf(job.id)) = Len(job.items)
    /\ CommitsOf(job.id)[1].user = CommitsOf(job.id)[2].user

\* the notifications emitted in the step just taken
NewCommits == {j \in (Len(trace) + 1) .. Len(trace') : trace'[j].t = "commit"}

\* C28: a committed notification for entity e is emitted only in the step that
\* handles the success of a call issued for the id of e, one notification at
\* most per successful call, in every interleaving of the messages.
C28_CommitAfterSuccess ==
    [][/\ Cardinality(NewCommits) <= 1
       /\ \A j \in NewCommits :
             /\ ResponseStep
             /\ handled'.ok
             /\ trace'[j].id = calls[handled'.call].id]_vars

\* C29: when SubmitAddMembers is produced only while the submit button is
\* enabled, at most one call is outstanding in every state and a submit is
\* handled only while no call is outstanding, so it resets the index of no
\* running batch.
C29_EnabledSubmitSequential ==
    [][/\ Cardinality(pending') <= 1
       /\ SubmitStep => pending = {}]_vars

\* a second batch was submitted after the first had run to its end
C29_Witness ==
    /\ handled.msg = "SubmitAddMembers"
    /\ job.id = 2
    /\ job.prev = Len(job.items)
    /\ current_add_index = 0
    /\ Cardinality(pending) = 1
    /\ Len(calls) > 1
    /\ failures = {}

\* C30: the batch code reads selected_users at current_add_index only while the
\* index is below the length of the list: the call issued in a step is for the
\* user at the index it leaves, the notification emitted is the user at the index
\* it found, and a success handled with the index at or past the end of the list
\* emits nothing, issues nothing and leaves the index alone.
C30_IndexInBounds ==
    [][/\ Len(calls') > Len(calls) =>
             /\ current_add_index' < Len(selected_users')
             /\ calls'[Len(calls')].id = selected_users'[current_add_index' + 1].id
       /\ \A j \in NewCommits :
             /\ current_add_index < Len(selected_users)
             /\ trace'[j].user = selected_users[current_add_index + 1]
       /\ (ResponseStep /\ handled'.ok /\ current_add_index >= Len(selected_users)) =>
             /\ trace' = trace
             /\ calls' = calls
             /\ current_add_index' = current_add_index]_vars

\* the list shrank while a call was outstanding and its success found the index
\* at the end of the list: every call succeeded, one of them without notification
C30_Witness ==
    /\ handled.msg = "AddMemberResponse"
    /\ handled.ok
    /\ pending = {}
    /\ failures = {}
    /\ selected_users # <<>>
    /\ current_add_index >= Len(selected_users)
    /\ Len(SelectSeq(trace, LAMBDA e : e.t = "commit")) < Len(calls)

\* ------------------------------------------------- properties of the two channels
\* the step just taken handled a failed response
FailureStep ==
    /\ handled' # handled
    /\ handled'.msg \in {"UserListResponse", "AddMemberResponse"}
    /\ ~handled'.ok

\* the error a failed response raises
ErrorOf(h) == IF h.msg = "UserListResponse" THEN "list" ELSE "add"

\* C23: every failed list response and every failed mutation response is stored
\* in the local error slot and forwarded to on_error, both in the same step, and
\* neither channel ever holds an error the other did not receive.
C23_BothChannels ==
    [][/\ FailureStep =>
             /\ error' = <<ErrorOf(handled')>>
             /\ reported' = Append(reported, ErrorOf(handled'))
       /\ (error' = <<>>) <=> (reported' = <<>>)
       /\ error' # <<>> => error'[1] = reported'[Len(reported')]]_vars

\* a mutation of a running batch failed after an earlier failure had been
\* reported: the slot holds the error and on_error received both
C23_Witness ==
    /\ handled.msg = "AddMemberResponse"
    /\ ~handled.ok
    /\ error = <<"add">>
    /\ Len(reported) >= 2
    /\ reported[Len(reported)] = "add"

\* C24 as stated: a submit with an empty selection issues no call and is
\* reported to the local error slot and to on_error.
C24_EmptySubmitReported ==
    [][(SubmitStep /\ selected_users = <<>>) =>
          /\ calls' = calls
          /\ pending' = pending
          /\ error' # <<>>
          /\ reported' = Append(reported, error'[1])]_vars

\* C24 amended: a submit with an empty selection issues no call and reports
\* nothing, neither to the local error slot nor to on_error.
C24_EmptySubmitUnreported ==
    [][(SubmitStep /\ selected_users = <<>>) =>
          /\ calls' = calls
          /\ pending' = pending
          /\ error' = error
          /\ reported' = reported]_vars

\* an empty submit was handled with the list loaded and nothing was ever reported
C24_Witness ==
    /\ handled.msg = "SubmitAddMembers"
    /\ selected_users = <<>>
    /\ user_list # <<>>
    /\ calls = <<>>
    /\ error = <<>>
    /\ reported = <<>>

\* ------------------------------------------------ properties of the option builders
\* the entities the builder keeps, with the text of their ids
Kept ==
    IF built.kind = "user"
    THEN LET l == get_selectable_user_list(UsersOf(members), UsersOf(fetched))
         IN  [i \in DOMAIN l |-> [id |-> l[i].id, display_name |-> l[i].display_name]]
    ELSE LET l == get_selectable_group_list(GroupsOf(members), GroupsOf(fetched))
         IN  [i \in DOMAIN l |-> [id |-> to_string(l[i].id), display_name |-> l[i].display_name]]

\* C25: the option built for an entity has value = its id and text = its
\* display name, or its id when the display name is empty, in the user picker
\* and in the group picker.
C25_OptionOfEntity ==
    built.kind # "none" =>
        /\ Len(built.options) = Len(Kept)
        /\ \A i \in DOMAIN Kept :
              /\ built.options[i].value = Kept[i].id
              /\ built.options[i].text =
                    IF Kept[i].display_name = <<>> THEN Kept[i].id ELSE Kept[i].display_name

\* ------------------------------------------------- properties of the round trip
\* C31: the entity a committed notification carries is, in id and display name,
\* an entity of the fetched list, the one its option was built from, also when
\* the display name of that entity is empty.
C31_CommitCarriesFetchedEntity ==
    \A j \in DOMAIN trace :
        trace[j].t = "commit" =>
            \E i \in DOMAIN FetchedUsers :
                /\ FetchedUsers[i].id = trace[j].user.id
                /\ FetchedUsers[i] = trace[j].user

\* ----------------------------------------------------- properties of the tables
\* the table handles a message in this step
TableStep(msg) ==
    /\ Len(table_handled') = Len(table_handled) + 1
    /\ table_handled'[Len(table_handled')].msg = msg

\* C32: a loaded list is never unloaded, a failed list response leaves the list
\* as it was, and a deleted notification for id x removes exactly the rows with
\* id x, the other rows and their order staying as they were.
C32_TableRows ==
    [][/\ table_rows # <<>> => table_rows' # <<>>
       /\ (TableStep("ListResponse") /\ ~table_handled'[Len(table_handled')].ok) =>
             table_rows' = table_rows
       /\ TableStep("OnDeleted") =>
             LET x == table_handled'[Len(table_handled')].arg
             IN  table_rows' =
                    <<Pick(table_rows[1], {i \in DOMAIN table_rows[1] : table_rows[1][i].id # x})>>
       /\ (TableStep("OnError") \/ TableStep("OnSearchChange") \/ TableStep("Search")) =>
             table_rows' = table_rows]_vars

\* a deleted notification removed the two rows with its id and left another row
C32_Witness ==
    /\ table_handled # <<>>
    /\ table_handled[Len(table_handled)].msg = "OnDeleted"
    /\ table_rows # <<>>
    /\ table_rows[1] # <<>>
    /\ Len(table_handled[Len(table_handled)].before[1]) = Len(table_rows[1]) + 2

====
